---------------------------- MODULE Spec2Model ----------------------------
(***************************************************************************)
(* Model of src/subtitle_processor.py: the SubtitleProcessor that turns a  *)
(* stream of growing caption snapshots into timestamped phrases.           *)
(*                                                                         *)
(* A text is a sequence of one-character strings; SP is the one whitespace *)
(* character of the model.  Times are whole seconds.  Python offsets are   *)
(* kept 0-based (a[i] of the source is a[i+1] here).                       *)
(***************************************************************************)
EXTENDS Integers, Sequences, FiniteSets, TLC

(***************************************************************************)
(* Bounds of the model.                                                    *)
(***************************************************************************)
MaxLen == 2         \* longest enumerated snapshot text (characters)
MaxCalls == 3       \* process_subtitle calls in one run
MaxGap == 3         \* largest clock advance between two calls (seconds)
MaxLag == 1         \* largest clock advance between the two readings of one call
MaxDiffLen == 3     \* longest text handed to find_diff on its own
MaxTokens == 9      \* most tokens of a text handed to clean_duplicates on its own
MaxFaults == 1      \* storage calls that raise in one run

(***************************************************************************)
(* Program constants.                                                      *)
(***************************************************************************)
PauseThreshold == 2     \* "if delta_time < 2.0"
WindowSize == 3         \* the 3-word window of clean_duplicates

SP == " "
Empty == << >>

(***************************************************************************)
(* Python string primitives used by the source.                            *)
(***************************************************************************)
Min(x, y) == IF x <= y THEN x ELSE y

\* s[i:j] with 0 <= i, j (Python slice, clipped to the string)
Slice(s, i, j) == SubSeq(s, i + 1, Min(j, Len(s)))

\* s[i:]
SliceFrom(s, i) == SubSeq(s, i + 1, Len(s))

\* sub in s
Contains(s, sub) ==
    \E k \in 0..(Len(s) - Len(sub)) : SubSeq(s, k + 1, k + Len(sub)) = sub

StartsWith(s, pre) == Len(pre) <= Len(s) /\ SubSeq(s, 1, Len(pre)) = pre

IsSpace(c) == c = SP

\* s.strip() is empty
IsBlank(s) == \A k \in 1..Len(s) : IsSpace(s[k])

RECURSIVE SplitFrom(_, _, _)
\* tokens of s from position k on, cur being the token read so far
SplitFrom(s, k, cur) ==
    IF k > Len(s)
    THEN (IF cur = Empty THEN << >> ELSE << cur >>)
    ELSE IF IsSpace(s[k])
         THEN (IF cur = Empty THEN << >> ELSE << cur >>) \o SplitFrom(s, k + 1, Empty)
         ELSE SplitFrom(s, k + 1, Append(cur, s[k]))

\* s.split()
Split(s) == SplitFrom(s, 1, Empty)

RECURSIVE Join(_)
\* ' '.join(words)
Join(words) ==
    IF words = << >> THEN Empty
    ELSE IF Len(words) = 1 THEN words[1]
    ELSE words[1] \o << SP >> \o Join(Tail(words))

RECURSIVE Concat(_)
\* ''.join(blocks)
Concat(blocks) ==
    IF blocks = << >> THEN Empty ELSE blocks[1] \o Concat(Tail(blocks))

(***************************************************************************)
(* difflib.SequenceMatcher(None, a, b) for texts shorter than 200          *)
(* characters (no junk, no "popular" elements).                            *)
(***************************************************************************)
RECURSIVE RunLen(_, _, _, _, _, _)
\* length of the common run a[i:i+k] = b[j:j+k] inside a[..ahi], b[..bhi]
RunLen(a, b, i, j, ahi, bhi) ==
    IF i < ahi /\ j < bhi /\ a[i + 1] = b[j + 1]
    THEN 1 + RunLen(a, b, i + 1, j + 1, ahi, bhi)
    ELSE 0

\* Latest-in-b tie-breaking (differs from difflib, which prefers the earliest).
find_longest_match_latest(a, b, alo, ahi, blo, bhi) ==
    LET cand == { p \in (alo..(ahi - 1)) \X (blo..(bhi - 1)) :
                    RunLen(a, b, p[1], p[2], ahi, bhi) > 0 }
    IN IF cand = {} THEN [a |-> alo, b |-> blo, size |-> 0]
       ELSE LET best == CHOOSE p \in cand :
                    \A q \in cand :
                        LET kp == RunLen(a, b, p[1], p[2], ahi, bhi)
                            kq == RunLen(a, b, q[1], q[2], ahi, bhi)
                        IN \/ kp > kq
                           \/ kp = kq /\ p[1] < q[1]
                           \/ kp = kq /\ p[1] = q[1] /\ p[2] >= q[2]
            IN [a |-> best[1], b |-> best[2],
                size |-> RunLen(a, b, best[1], best[2], ahi, bhi)]

\* matcher.find_longest_match(alo, ahi, blo, bhi): the longest matching block;
\* of all the longest, the one starting earliest in a, then earliest in b;
\* (alo, blo, 0) when nothing matches.
find_longest_match(a, b, alo, ahi, blo, bhi) ==
    LET cand == { p \in (alo..(ahi - 1)) \X (blo..(bhi - 1)) :
                    RunLen(a, b, p[1], p[2], ahi, bhi) > 0 }
    IN IF cand = {} THEN [a |-> alo, b |-> blo, size |-> 0]
       ELSE LET best == CHOOSE p \in cand :
                    \A q \in cand :
                        LET kp == RunLen(a, b, p[1], p[2], ahi, bhi)
                            kq == RunLen(a, b, q[1], q[2], ahi, bhi)
                        IN \/ kp > kq
                           \/ kp = kq /\ p[1] < q[1]
                           \/ kp = kq /\ p[1] = q[1] /\ p[2] <= q[2]
            IN [a |-> best[1], b |-> best[2],
                size |-> RunLen(a, b, best[1], best[2], ahi, bhi)]

RECURSIVE MatchingBlocksIn(_, _, _, _, _, _)
\* the recursion of get_matching_blocks on a[alo:ahi], b[blo:bhi], in order
MatchingBlocksIn(a, b, alo, ahi, blo, bhi) ==
    LET x == find_longest_match(a, b, alo, ahi, blo, bhi)
    IN IF x.size = 0 THEN << >>
       ELSE (IF alo < x.a /\ blo < x.b
             THEN MatchingBlocksIn(a, b, alo, x.a, blo, x.b) ELSE << >>)
            \o << x >>
            \o (IF x.a + x.size < ahi /\ x.b + x.size < bhi
                THEN MatchingBlocksIn(a, b, x.a + x.size, ahi, x.b + x.size, bhi)
                ELSE << >>)

RECURSIVE Collapse(_, _)
\* get_matching_blocks merges adjacent blocks; cur is the block being grown
Collapse(blocks, cur) ==
    IF blocks = << >> THEN (IF cur.size > 0 THEN << cur >> ELSE << >>)
    ELSE LET x == Head(blocks)
         IN IF cur.a + cur.size = x.a /\ cur.b + cur.size = x.b
            THEN Collapse(Tail(blocks), [cur EXCEPT !.size = cur.size + x.size])
            ELSE (IF cur.size > 0 THEN << cur >> ELSE << >>)
                 \o Collapse(Tail(blocks), x)

\* matcher.get_matching_blocks(), the (len(a), len(b), 0) sentinel included
get_matching_blocks(a, b) ==
    Collapse(MatchingBlocksIn(a, b, 0, Len(a), 0, Len(b)), [a |-> 0, b |-> 0, size |-> 0])
        \o << [a |-> Len(a), b |-> Len(b), size |-> 0] >>

RECURSIVE OpcodesFrom(_, _, _)
\* get_opcodes: walk the matching blocks from position (i, j)
OpcodesFrom(blocks, i, j) ==
    IF blocks = << >> THEN << >>
    ELSE LET x == Head(blocks)
             tag == IF i < x.a /\ j < x.b THEN "replace"
                    ELSE IF i < x.a THEN "delete"
                    ELSE IF j < x.b THEN "insert"
                    ELSE "none"
         IN (IF tag # "none"
             THEN << [tag |-> tag, i1 |-> i, i2 |-> x.a, j1 |-> j, j2 |-> x.b] >>
             ELSE << >>)
            \o (IF x.size > 0
                THEN << [tag |-> "equal", i1 |-> x.a, i2 |-> x.a + x.size,
                         j1 |-> x.b, j2 |-> x.b + x.size] >>
                ELSE << >>)
            \o OpcodesFrom(Tail(blocks), x.a + x.size, x.b + x.size)

\* matcher.get_opcodes()
get_opcodes(a, b) == OpcodesFrom(get_matching_blocks(a, b), 0, 0)

RECURSIVE InsertedBlocks(_, _)
\* the substrings of new_text under the insert and replace opcodes, in order
InsertedBlocks(ops, new_text) ==
    IF ops = << >> THEN << >>
    ELSE (IF Head(ops).tag \in {"insert", "replace"}
          THEN << Slice(new_text, Head(ops).j1, Head(ops).j2) >>
          ELSE << >>)
         \o InsertedBlocks(Tail(ops), new_text)

\* SubtitleProcessor.find_diff
find_diff(old_text, new_text) ==
    IF old_text = Empty THEN new_text
    ELSE LET match == find_longest_match(old_text, new_text,
                                         0, Len(old_text), 0, Len(new_text))
         IN IF match.a = 0 /\ match.b = 0 /\ Len(new_text) > Len(old_text)
            THEN SliceFrom(new_text, Len(old_text))
            ELSE Concat(InsertedBlocks(get_opcodes(old_text, new_text), new_text))

(***************************************************************************)
(* SubtitleProcessor.clean_duplicates                                      *)
(***************************************************************************)
RECURSIVE CleanFromWholeText(_, _)
\* a loop that looks for the window in the whole text, not in what follows it
CleanFromWholeText(words, i) ==
    IF i >= Len(words) THEN << >>
    ELSE IF /\ i + WindowSize <= Len(words)
            /\ Contains(Join(words), Join(SubSeq(words, i + 1, i + WindowSize)))
         THEN CleanFromWholeText(words, i + WindowSize)
         ELSE << words[i + 1] >> \o CleanFromWholeText(words, i + 1)

RECURSIVE CleanFrom(_, _)
\* the while loop of clean_duplicates from index i on: the words kept
CleanFrom(words, i) ==
    IF i >= Len(words) THEN << >>
    ELSE IF /\ i + WindowSize <= Len(words)
            /\ Contains(Join(SubSeq(words, i + WindowSize + 1, Len(words))),
                        Join(SubSeq(words, i + 1, i + WindowSize)))
         THEN CleanFrom(words, i + WindowSize)
         ELSE << words[i + 1] >> \o CleanFrom(words, i + 1)

clean_duplicates(text) ==
    LET words == Split(text)
    IN IF Len(words) <= WindowSize THEN text ELSE Join(CleanFrom(words, 0))


(***************************************************************************)
(* Input texts.                                                            *)
(***************************************************************************)
Alphabet == {"a", SP}

RECURSIVE TextsUpTo(_)
\* every text over Alphabet of at most n characters
TextsUpTo(n) ==
    IF n = 0 THEN { Empty }
    ELSE LET shorter == TextsUpTo(n - 1)
         IN shorter \cup { Append(t, c) : t \in shorter, c \in Alphabet }

\* longer snapshots: one, two, five and six tokens
LongTexts ==
    { << "a", "a", "a" >>,
      << "a", SP, "a" >>,
      << "a", SP, "a", SP, "a", SP, "a", SP, "a" >>,
      << "a", SP, "a", SP, "a", SP, "a", SP, "a", SP, "a" >> }

\* the two snapshots of the "Hello there" / "Bye" scenario
HelloThere == << "H", "e", "l", "l", "o", SP, "t", "h", "e", "r", "e" >>
Bye == << "B", "y", "e" >>
ScenarioTexts == { HelloThere, Bye }

\* the snapshots the caption source may deliver
Texts == TextsUpTo(MaxLen) \cup LongTexts \cup ScenarioTexts

(***************************************************************************)
(* State of one SubtitleProcessor and of its environment.                  *)
(***************************************************************************)
VARIABLES
    use_sqlite,         \* self.use_sqlite
    closed,             \* close() was called
    last_update_time,   \* self.last_update_time
    current_phrase,     \* self.current_phrase, the accumulator
    phrase_history,     \* self.phrase_history
    text_db,            \* self.text_db, the in-memory slot (no such attribute with SQLite)
    subtitles,          \* rows of table subtitles
    phrases,            \* rows of table phrases
    now,                \* the clock, time.time(), at the end of the latest call
    calls,              \* number of process_subtitle calls made
    call,               \* the latest call: its argument, what it read and the branch taken
    out,                \* what the latest call printed, as events
    began,              \* history: update_time of the call that began the accumulator
    chain,              \* history: were all calls so far a strictly growing, dense sequence
    deltas,             \* history: the deltas of the effective updates, concatenated
    written,            \* history: text and update_time of the latest call that wrote back
    faults,             \* number of storage calls that raised
    fn_in,              \* arguments of the pure function under study
    fn_out,             \* its result
    fn_done             \* whether it was applied

procVars == << use_sqlite, closed, last_update_time, current_phrase, phrase_history,
               text_db, subtitles, phrases, now, calls, call, out, began, chain, deltas,
               written, faults >>
fnVars == << fn_in, fn_out, fn_done >>
vars == << procVars, fnVars >>

\* the state the processor itself holds (accumulator, clock mark and store)
progVars == << last_update_time, current_phrase, phrase_history, text_db,
               subtitles, phrases >>

(***************************************************************************)
(* SnapshotStore: the two backends.                                        *)
(***************************************************************************)
NoDict == [k \in {} |-> Empty]

MaxOf(S) == CHOOSE x \in S : \A y \in S : y <= x

\* _get_latest_text: the values the read may return.  With SQLite the query
\* is ORDER BY timestamp DESC LIMIT 1, which names no order among rows of
\* equal timestamp: any row carrying the greatest timestamp may come back.
get_latest_text ==
    IF use_sqlite
    THEN IF subtitles = << >> THEN { Empty }
         ELSE LET top == MaxOf({ subtitles[k].timestamp : k \in 1..Len(subtitles) })
              IN { subtitles[k].full_text :
                     k \in { n \in 1..Len(subtitles) : subtitles[n].timestamp = top } }
    ELSE { text_db.full_text }

\* _save_to_db(text), timestamp being its own reading of time.time()
save_to_db(text, timestamp) ==
    IF use_sqlite
    THEN /\ subtitles' = Append(subtitles,
                [id |-> Len(subtitles) + 1, full_text |-> text, timestamp |-> timestamp])
         /\ UNCHANGED text_db
    ELSE /\ text_db' = [full_text |-> text, timestamp |-> timestamp]
         /\ UNCHANGED subtitles

\* _save_phrase with start_time and end_time stored in each other's place
save_phrase_swapped(text, start_time, end_time) ==
    IF use_sqlite
    THEN /\ phrases' = Append(phrases,
                [id |-> Len(phrases) + 1, text |-> text,
                 start_time |-> end_time, end_time |-> start_time])
         /\ UNCHANGED phrase_history
    ELSE /\ phrase_history' = Append(phrase_history,
                [text |-> text, start_time |-> end_time, end_time |-> start_time])
         /\ UNCHANGED phrases

\* _save_phrase that keeps only the newest phrase
save_phrase_overwriting(text, start_time, end_time) ==
    IF use_sqlite
    THEN /\ phrases' = << [id |-> 1, text |-> text,
                           start_time |-> start_time, end_time |-> end_time] >>
         /\ UNCHANGED phrase_history
    ELSE /\ phrase_history' =
                << [text |-> text, start_time |-> start_time, end_time |-> end_time] >>
         /\ UNCHANGED phrases

\* _save_phrase(text, start_time, end_time)
save_phrase(text, start_time, end_time) ==
    IF use_sqlite
    THEN /\ phrases' = Append(phrases,
                [id |-> Len(phrases) + 1, text |-> text,
                 start_time |-> start_time, end_time |-> end_time])
         /\ UNCHANGED phrase_history
    ELSE /\ phrase_history' = Append(phrase_history,
                [text |-> text, start_time |-> start_time, end_time |-> end_time])
         /\ UNCHANGED phrases

\* the phrase history of the store in use, as Phrase records
PhraseLog ==
    IF use_sqlite
    THEN [k \in 1..Len(phrases) |->
            [text |-> phrases[k].text, start_time |-> phrases[k].start_time,
             end_time |-> phrases[k].end_time]]
    ELSE phrase_history

(***************************************************************************)
(* SubtitleProcessor.process_subtitle, step by step.                       *)
(***************************************************************************)
\* "if current_text == last_stored_text: return"
NoChange(current_text, last_stored_text) == current_text = last_stored_text

\* diff_text = clean_duplicates(find_diff(last_stored_text, current_text))
diff_of(last_stored_text, current_text) ==
    clean_duplicates(find_diff(last_stored_text, current_text))

RECURSIVE Tabulate(_, _)
\* the function f on the set S, written out as an explicit table
Tabulate(f, S) ==
    IF S = {} THEN << >>
    ELSE LET p == CHOOSE q \in S : TRUE
         IN (p :> f[p]) @@ Tabulate(f, S \ {p})

\* find_diff and diff_of, evaluated once for every pair of snapshots:
\* RawTable[old_text][new_text] and DiffTable[last_stored_text][current_text]
RawTable ==
    Tabulate([o \in Texts |-> Tabulate([n \in Texts |-> find_diff(o, n)], Texts)], Texts)
DiffTable ==
    Tabulate([o \in Texts |-> Tabulate([n \in Texts |-> diff_of(o, n)], Texts)], Texts)

\* a skip test without the strip(): only the empty delta is skipped
SkipsOnlyEmpty(diff_text) == diff_text = Empty

\* "if not diff_text.strip(): return"
SkipsUpdate(diff_text) == IsBlank(diff_text)

\* a continuation window that includes the tie delta_time = 2.0
IsContinuationInclusive(delta_time) == delta_time <= PauseThreshold

\* "if delta_time < 2.0"
IsContinuation(delta_time) == delta_time < PauseThreshold

\* a continuation that forgets the phrase so far
ContinuedReplacing(phrase, current_text, diff_text) == diff_text

\* a continuation that appends without testing that the phrase is still valid
ContinuedAppending(phrase, current_text, diff_text) == phrase \o diff_text

\* the accumulator after the continuation branch
Continued(phrase, current_text, diff_text) ==
    IF phrase # Empty
    THEN IF Contains(current_text, phrase)
         THEN phrase \o diff_text
         ELSE current_text
    ELSE diff_text

\* a boundary that keeps the completed phrase in the accumulator
RestartedKeeping(phrase, current_text, diff_text) == phrase \o diff_text

\* a boundary that clears the accumulator instead of seeding it
RestartedCleared(phrase, current_text, diff_text) == Empty

\* the accumulator after the boundary branch
Restarted(phrase, current_text, diff_text) == diff_text

\* "if self.current_phrase:" of the boundary branch: is there a phrase to complete
Completes(phrase) == phrase # Empty

\* the events a presentation layer would derive from the prints
PhraseUpdated(text) == [type |-> "PhraseUpdated", text |-> text, start_time |-> 0, end_time |-> 0]
PhraseFinalized(text, start_time, end_time) ==
    [type |-> "PhraseFinalized", text |-> text, start_time |-> start_time, end_time |-> end_time]
PhraseStarted(text) == [type |-> "PhraseStarted", text |-> text, start_time |-> 0, end_time |-> 0]

\* an early return placed after the bookkeeping of last_update_time
ReturnsEarlyMarkingTime ==
    /\ UNCHANGED << current_phrase, phrase_history, text_db, subtitles, phrases >>
    /\ last_update_time' = call'.time
    /\ out' = << >>

\* an early return placed after the write-back of the snapshot
ReturnsEarlyAfterWriteBack ==
    /\ UNCHANGED << current_phrase, phrase_history, phrases, last_update_time >>
    /\ save_to_db(call'.text, call'.time)
    /\ out' = << >>

\* a call that returns early: nothing is written and nothing is printed
ReturnsEarly == /\ UNCHANGED progVars
                /\ out' = << >>

\* the continuation branch with its write-back
ContinuationBranch(current_text, update_time, timestamp, diff_text) ==
    /\ current_phrase' = Continued(current_phrase, current_text, diff_text)
    /\ out' = << PhraseUpdated(current_phrase') >>
    /\ UNCHANGED << phrase_history, phrases >>
    /\ save_to_db(current_text, timestamp)
    /\ last_update_time' = update_time

\* the boundary branch with its write-back
BoundaryBranch(current_text, update_time, timestamp, diff_text) ==
    /\ IF Completes(current_phrase)
       THEN save_phrase(current_phrase, last_update_time, update_time)
       ELSE UNCHANGED << phrase_history, phrases >>
    /\ current_phrase' = Restarted(current_phrase, current_text, diff_text)
    /\ out' = (IF Completes(current_phrase)
               THEN << PhraseFinalized(current_phrase, last_update_time, update_time) >>
               ELSE << >>)
              \o << PhraseStarted(current_phrase') >>
    /\ save_to_db(current_text, timestamp)
    /\ last_update_time' = update_time

\* which way a call goes
BranchOf(current_text, update_time, last_stored_text) ==
    IF NoChange(current_text, last_stored_text) THEN "same"
    ELSE IF SkipsUpdate(DiffTable[last_stored_text][current_text]) THEN "blank"
    ELSE IF IsContinuation(update_time - last_update_time) THEN "continuation"
    ELSE "boundary"

\* does the snapshot continue a strictly growing, dense sequence
Grows(current_text, update_time) ==
    /\ StartsWith(current_text, call.text)
    /\ Len(current_text) > Len(call.text)
    /\ calls > 0 => update_time - call.time < PauseThreshold

\* the history variables after a call
Observed(current_text, update_time, last_stored_text) ==
    LET branch == BranchOf(current_text, update_time, last_stored_text)
        diff_text == DiffTable[last_stored_text][current_text]
        raw == RawTable[last_stored_text][current_text]
    IN /\ call' = [op |-> "process", text |-> current_text, time |-> update_time,
                   read |-> last_stored_text, diff |-> diff_text, branch |-> branch,
                   phrase_before |-> current_phrase, last_time |-> last_update_time]
       /\ began' = IF \/ branch = "boundary"
                      \/ branch = "continuation" /\ current_phrase = Empty
                   THEN update_time ELSE began
       /\ chain' = IF chain = "broken" \/ ~Grows(current_text, update_time)
                   THEN "broken"
                   ELSE IF /\ chain = "effective"
                           /\ last_stored_text = call.text
                           /\ branch \in {"continuation", "boundary"}
                           /\ Len(Split(raw)) <= WindowSize
                        THEN "effective"
                        ELSE "growing"
       /\ deltas' = IF branch \in {"continuation", "boundary"}
                    THEN deltas \o diff_text ELSE deltas
       /\ written' = IF branch \in {"continuation", "boundary"}
                     THEN [text |-> current_text, time |-> update_time] ELSE written

\* process_subtitle(current_text): update_time is its reading of the clock,
\* timestamp the reading of _save_to_db, last_stored_text what the store
\* returned.  The debug_log lines are not part of the events.
process_subtitle(current_text, update_time, timestamp, last_stored_text) ==
    LET branch == BranchOf(current_text, update_time, last_stored_text)
        diff_text == DiffTable[last_stored_text][current_text]
    IN CASE branch = "same" -> ReturnsEarly /\ now' = update_time
         [] branch = "blank" -> ReturnsEarly /\ now' = update_time
         [] branch = "continuation" ->
              ContinuationBranch(current_text, update_time, timestamp, diff_text)
              /\ now' = timestamp
         [] branch = "boundary" ->
              BoundaryBranch(current_text, update_time, timestamp, diff_text)
              /\ now' = timestamp

\* SubtitleProcessor.close: closes the connection, the accumulator stays as it is
close ==
    /\ ~closed
    /\ closed' = TRUE
    /\ call' = [op |-> "close", text |-> call.text, time |-> now,
                read |-> Empty, diff |-> Empty, branch |-> "none",
                phrase_before |-> current_phrase, last_time |-> last_update_time]
    /\ out' = << >>
    /\ UNCHANGED << use_sqlite, now, calls, began, chain, deltas, written, faults >>
    /\ UNCHANGED progVars

(***************************************************************************)
(* The processor fed by a caption source.                                  *)
(***************************************************************************)
\* the processor right after __init__
Constructed ==
    /\ use_sqlite \in BOOLEAN
    /\ closed = FALSE
    /\ now = 0
    /\ last_update_time = 0
    /\ current_phrase = Empty
    /\ phrase_history = << >>
    /\ text_db = IF use_sqlite THEN NoDict ELSE [full_text |-> Empty]
    /\ subtitles = << >>
    /\ phrases = << >>
    /\ calls = 0
    /\ call = [op |-> "init", text |-> Empty, time |-> 0,
               read |-> Empty, diff |-> Empty, branch |-> "none",
               phrase_before |-> Empty, last_time |-> 0]
    /\ out = << >>
    /\ began = 0
    /\ chain = "effective"
    /\ deltas = Empty
    /\ written = [text |-> Empty, time |-> 0]
    /\ faults = 0

Init ==
    /\ Constructed
    /\ fn_in = << >>
    /\ fn_out = Empty
    /\ fn_done = FALSE

\* the caption source delivers a snapshot: on_subtitle_update(text) calls
\* process_subtitle(text).  No snapshot is delivered after close().
Process ==
    /\ ~closed
    /\ calls < MaxCalls
    /\ \E current_text \in Texts, gap \in 0..MaxGap, lag \in 0..MaxLag :
         \E last_stored_text \in get_latest_text :
            /\ Observed(current_text, now + gap, last_stored_text)
            /\ process_subtitle(current_text, now + gap, now + gap + lag, last_stored_text)
    /\ calls' = calls + 1
    /\ UNCHANGED << use_sqlite, closed, faults >>
    /\ UNCHANGED fnVars

Close == close /\ UNCHANGED fnVars

Next == Process \/ Close

Spec == Init /\ [][Next]_vars

(***************************************************************************)
(* Storage failures: a statement of the SQLite backend raises sqlite3.Error *)
(* and the exception leaves process_subtitle at that statement.  Either    *)
(* execute() raised and no row was added, or commit() raised and the row   *)
(* stays pending, visible to later statements of this connection.  The     *)
(* in-memory backend has no statement that can raise.                      *)
(***************************************************************************)
StorageCalls == { "get_latest_text", "save_phrase", "save_to_db" }

\* process_subtitle(current_text) left by an exception of the storage call at
process_subtitle_raising(current_text, update_time, timestamp, last_stored_text, at, visible) ==
    LET branch == BranchOf(current_text, update_time, last_stored_text)
        diff_text == DiffTable[last_stored_text][current_text]
    IN CASE at = "get_latest_text" ->
              /\ UNCHANGED progVars
              /\ out' = << >>
              /\ now' = update_time
         [] at = "save_phrase" ->
              /\ branch = "boundary"
              /\ Completes(current_phrase)
              /\ IF visible
                 THEN save_phrase(current_phrase, last_update_time, update_time)
                 ELSE UNCHANGED << phrase_history, phrases >>
              /\ UNCHANGED << current_phrase, last_update_time, text_db, subtitles >>
              /\ out' = << >>
              /\ now' = update_time
         [] at = "save_to_db" ->
              /\ branch \in {"continuation", "boundary"}
              /\ IF branch = "boundary" /\ Completes(current_phrase)
                 THEN save_phrase(current_phrase, last_update_time, update_time)
                 ELSE UNCHANGED << phrase_history, phrases >>
              /\ current_phrase' =
                    IF branch = "continuation"
                    THEN Continued(current_phrase, current_text, diff_text)
                    ELSE Restarted(current_phrase, current_text, diff_text)
              /\ out' = IF branch = "continuation"
                        THEN << PhraseUpdated(current_phrase') >>
                        ELSE (IF Completes(current_phrase)
                              THEN << PhraseFinalized(current_phrase, last_update_time,
                                                      update_time) >>
                              ELSE << >>)
                             \o << PhraseStarted(current_phrase') >>
              /\ IF visible
                 THEN save_to_db(current_text, timestamp)
                 ELSE UNCHANGED << text_db, subtitles >>
              /\ UNCHANGED last_update_time
              /\ now' = timestamp

\* the history variables after a call that raised
ObservedRaising(current_text, update_time, last_stored_text, at, visible) ==
    LET branch == BranchOf(current_text, update_time, last_stored_text)
        diff_text == DiffTable[last_stored_text][current_text]
        reached == at = "save_to_db"
    IN /\ call' = [op |-> at \o "_raised", text |-> current_text, time |-> update_time,
                   read |-> last_stored_text, diff |-> diff_text, branch |-> branch,
                   phrase_before |-> current_phrase, last_time |-> last_update_time]
       /\ began' = IF reached /\ (branch = "boundary" \/ current_phrase = Empty)
                   THEN update_time ELSE began
       /\ chain' = "broken"
       /\ deltas' = IF reached THEN deltas \o diff_text ELSE deltas
       /\ written' = IF reached /\ visible
                     THEN [text |-> current_text, time |-> update_time] ELSE written

\* the caption source delivers a snapshot and a storage call raises; the
\* clock does not advance between the two readings of such a call
ProcessRaising ==
    /\ ~closed
    /\ use_sqlite
    /\ calls < MaxCalls
    /\ faults < MaxFaults
    /\ \E current_text \in Texts, gap \in 0..MaxGap,
          at \in StorageCalls, visible \in BOOLEAN :
         \E last_stored_text \in get_latest_text :
            /\ at = "get_latest_text" => ~visible
            /\ ObservedRaising(current_text, now + gap, last_stored_text, at, visible)
            /\ process_subtitle_raising(current_text, now + gap, now + gap,
                                        last_stored_text, at, visible)
    /\ calls' = calls + 1
    /\ faults' = faults + 1
    /\ UNCHANGED << use_sqlite, closed >>
    /\ UNCHANGED fnVars

\* a processor on the SQLite backend
InitFaulty == Init /\ use_sqlite

NextFaulty == Process \/ ProcessRaising \/ Close

SpecFaulty == InitFaulty /\ [][NextFaulty]_vars

(***************************************************************************)
(* find_diff on its own: every pair of short texts.                        *)
(***************************************************************************)
DiffAlphabet == {"a", "b", SP}

RECURSIVE DiffTextsUpTo(_)
DiffTextsUpTo(n) ==
    IF n = 0 THEN { Empty }
    ELSE LET shorter == DiffTextsUpTo(n - 1)
         IN shorter \cup { Append(t, c) : t \in shorter, c \in DiffAlphabet }

InitDiff ==
    /\ Constructed
    /\ fn_in \in DiffTextsUpTo(MaxDiffLen) \X DiffTextsUpTo(MaxDiffLen)
    /\ fn_out = Empty
    /\ fn_done = FALSE

ApplyFindDiff ==
    /\ ~fn_done
    /\ fn_out' = find_diff(fn_in[1], fn_in[2])
    /\ fn_done' = TRUE
    /\ UNCHANGED << fn_in, procVars >>

SpecDiff == InitDiff /\ [][ApplyFindDiff]_vars

(***************************************************************************)
(* clean_duplicates on its own: applied once, then to its own result.      *)
(***************************************************************************)
Tokens == { << "a" >>, << "b" >> }

RECURSIVE TokenSeqsUpTo(_)
TokenSeqsUpTo(n) ==
    IF n = 0 THEN { << >> }
    ELSE LET shorter == TokenSeqsUpTo(n - 1)
         IN shorter \cup { Append(w, t) : w \in shorter, t \in Tokens }

\* single-spaced texts of up to MaxTokens tokens, and the snapshots with
\* their leading, trailing and doubled spaces
CleanTexts == { Join(w) : w \in TokenSeqsUpTo(MaxTokens) } \cup Texts

InitClean ==
    /\ Constructed
    /\ fn_in \in { << t >> : t \in CleanTexts }
    /\ fn_out = Empty
    /\ fn_done = FALSE

ApplyClean ==
    /\ ~fn_done
    /\ fn_out' = clean_duplicates(fn_in[1])
    /\ fn_done' = TRUE
    /\ UNCHANGED << fn_in, procVars >>

\* the result is fed back: fn_in keeps the text and the first result
ApplyCleanAgain ==
    /\ fn_done
    /\ Len(fn_in) = 1
    /\ fn_in' = Append(fn_in, fn_out)
    /\ fn_out' = clean_duplicates(fn_out)
    /\ UNCHANGED << fn_done, procVars >>

NextClean == ApplyClean \/ ApplyCleanAgain

SpecClean == InitClean /\ [][NextClean]_vars

(***************************************************************************)
(* Properties.                                                             *)
(***************************************************************************)
\* this step is one process_subtitle call
ProcessStep == calls' = calls + 1 /\ call'.op = "process"

\* the latest call was a process_subtitle call
Processed == call.op = "process"

IsPrefix(s, t) == Len(s) <= Len(t) /\ SubSeq(t, 1, Len(s)) = s

Phrase(text, start_time, end_time) ==
    [text |-> text, start_time |-> start_time, end_time |-> end_time]

\* C1: a process_subtitle call whose current_text equals the text read from
\* the store emits no event and leaves the accumulator, the phrase history,
\* the stored snapshot and last_update_time unchanged, whatever the elapsed
\* time.
C1_SameTextIsNoOp ==
    [][ (ProcessStep /\ call'.text = call'.read)
            => (out' = << >> /\ UNCHANGED progVars) ]_vars

\* a repeated snapshot arrived after the pause threshold, with a phrase in progress
C1_Witness ==
    /\ Processed
    /\ call.text = call.read
    /\ call.text # Empty
    /\ current_phrase # Empty
    /\ call.time - last_update_time >= PauseThreshold
    /\ out = << >>

\* C2 as claimed: with a non-empty accumulator, a snapshot that differs from
\* the previous snapshot and arrives 2.0s or more after it appends exactly
\* one Phrase (accumulator before the call, last_time, time of the call).
C2_Original ==
    [][ (/\ ProcessStep
         /\ current_phrase # Empty
         /\ call'.text # call'.read
         /\ call'.time - last_update_time >= PauseThreshold)
            => PhraseLog' = Append(PhraseLog,
                                   Phrase(current_phrase, last_update_time, call'.time)) ]_vars

\* C2 amended: with a non-empty accumulator, a snapshot whose suppressed
\* delta against the stored snapshot is not blank and that arrives 2.0s or
\* more after the previous update appends exactly one Phrase: its text is the
\* accumulator before the call, its start_time the time of the previous
\* update, its end_time the time of this call.
C2_GapFinalizesOnePhrase ==
    [][ (/\ ProcessStep
         /\ current_phrase # Empty
         /\ call'.text # call'.read
         /\ ~IsBlank(call'.diff)
         /\ call'.time - last_update_time >= PauseThreshold)
            => PhraseLog' = Append(PhraseLog,
                                   Phrase(current_phrase, last_update_time, call'.time)) ]_vars

\* a phrase in progress was finalized by an update after a pause
C2_Witness ==
    /\ Processed
    /\ call.phrase_before # Empty
    /\ call.text # call.read
    /\ ~IsBlank(call.diff)
    /\ call.time - call.last_time >= PauseThreshold
    /\ Len(PhraseLog) >= 1
    /\ PhraseLog[Len(PhraseLog)] = Phrase(call.phrase_before, call.last_time, call.time)

C4_PhraseWellFormed ==
    \A k \in 1..Len(PhraseLog) :
        /\ PhraseLog[k].start_time <= PhraseLog[k].end_time
        /\ ~IsBlank(PhraseLog[k].text)

\* two phrases were finalized, one of them holding a space
C4_Witness ==
    /\ Len(PhraseLog) = 2
    /\ \E k \in 1..2 : Contains(PhraseLog[k].text, << SP >>)

\* C5 as claimed: the start_time of a finalized Phrase is the time of the
\* update that began its accumulation, its end_time the time of the update
\* that finalized it.
C5_StartIsBeginOfAccumulation ==
    [][ Len(PhraseLog') = Len(PhraseLog) + 1
            => /\ PhraseLog'[Len(PhraseLog')].start_time = began
               /\ PhraseLog'[Len(PhraseLog')].end_time = call'.time ]_vars

\* C6: the phrase history is append-only: a step keeps the history as a
\* prefix, adds at most one Phrase, and adds one only in a process_subtitle
\* call that takes the boundary branch.
C6_HistoryAppendOnly ==
    [][ /\ IsPrefix(PhraseLog, PhraseLog')
        /\ Len(PhraseLog') <= Len(PhraseLog) + 1
        /\ Len(PhraseLog') > Len(PhraseLog)
             => /\ ProcessStep
                /\ call'.text # call'.read
                /\ ~IsBlank(call'.diff)
                /\ call'.time - last_update_time >= PauseThreshold ]_vars

\* a second Phrase was appended behind the first
C6_Witness ==
    /\ Len(PhraseLog) = 2
    /\ Processed
    /\ call.branch = "boundary"
    /\ call.phrase_before # Empty

\* C7: consecutive Phrases p, q of the history have p.end_time <=
\* q.start_time and p.end_time < q.end_time, and a call that finalizes the
\* accumulator restarts it from the new delta alone, so that no accumulated
\* text reaches a second Phrase.
C7_FinalizedOnceInOrder ==
    /\ [](\A k \in 1..(Len(PhraseLog) - 1) :
            /\ PhraseLog[k].end_time <= PhraseLog[k + 1].start_time
            /\ PhraseLog[k].end_time < PhraseLog[k + 1].end_time)
    /\ [][ Len(PhraseLog') > Len(PhraseLog) => current_phrase' = call'.diff ]_vars

\* two phrases were finalized one after the other
C7_Witness ==
    /\ Len(PhraseLog) = 2
    /\ PhraseLog[1].end_time <= PhraseLog[2].start_time
    /\ PhraseLog[1].text # PhraseLog[2].text

\* C8 as claimed: clean_duplicates applied to its own result changes nothing.
C8_Idempotent ==
    (fn_done /\ Len(fn_in) = 2) => fn_out = fn_in[2]

\* C9: when new_text starts with old_text and is longer, find_diff returns
\* new_text[len(old_text):].
C9_PrefixGivesSuffix ==
    (/\ fn_done
     /\ Len(fn_in) = 2
     /\ StartsWith(fn_in[2], fn_in[1])
     /\ Len(fn_in[2]) > Len(fn_in[1]))
        => fn_out = SliceFrom(fn_in[2], Len(fn_in[1]))

\* a non-empty old_text that is a prefix of new_text and occurs in it again
C9_Witness ==
    /\ fn_done
    /\ Len(fn_in) = 2
    /\ fn_in[1] # Empty
    /\ StartsWith(fn_in[2], fn_in[1])
    /\ Len(fn_in[2]) > Len(fn_in[1])
    /\ Contains(SliceFrom(fn_in[2], 1), fn_in[1])
    /\ fn_out = SliceFrom(fn_in[2], Len(fn_in[1]))

\* C10 as claimed: for a non-empty old_text that is not a prefix of new_text,
\* find_diff returns the substrings of new_text under the insert and replace
\* operations of the alignment, concatenated in order.
C10_NonPrefixGivesInsertions ==
    (/\ fn_done
     /\ Len(fn_in) = 2
     /\ fn_in[1] # Empty
     /\ ~StartsWith(fn_in[2], fn_in[1]))
        => fn_out = Concat(InsertedBlocks(get_opcodes(fn_in[1], fn_in[2]), fn_in[2]))

\* C11 as claimed: with the accumulator "Hello there" produced by the snapshot
\* "Hello there", the snapshot "Bye" arriving 3s later appends exactly one
\* Phrase with text "Hello there" and emits a phrase-finalized event followed
\* by a phrase-started event with text "Bye", which is the new accumulator.
C11_HelloThereThenBye ==
    [][ (/\ ProcessStep
         /\ call.op = "process"
         /\ call.text = HelloThere
         /\ current_phrase = HelloThere
         /\ call'.read = HelloThere
         /\ call'.text = Bye
         /\ call'.time - call.time = 3)
            => /\ PhraseLog' = Append(PhraseLog,
                                      Phrase(HelloThere, last_update_time, call'.time))
               /\ out' = << PhraseFinalized(HelloThere, last_update_time, call'.time),
                            PhraseStarted(Bye) >>
               /\ current_phrase' = Bye ]_vars

\* C12 as claimed: on either backend, after any sequence of snapshot writes
\* (timestamps never decrease, two writes may carry the same one),
\* _get_latest_text returns the text of the most recent write, and the empty
\* text when nothing was written.
C12_ReadReturnsLatestWrite ==
    get_latest_text = { written.text }

\* C13 as claimed: a close() called with a non-empty accumulator finalizes it:
\* exactly one Phrase holding the accumulator is appended to the phrase
\* history.
C13_CloseFlushes ==
    [][ (call'.op = "close" /\ ~closed /\ closed' /\ current_phrase # Empty)
            => /\ Len(PhraseLog') = Len(PhraseLog) + 1
               /\ PhraseLog'[Len(PhraseLog')].text = current_phrase ]_vars

\* C14: a process_subtitle call whose snapshot differs from the stored one but
\* whose suppressed delta is blank emits no event and leaves the accumulator,
\* the phrase history, the stored snapshot and last_update_time unchanged,
\* whatever the elapsed time; the next call reads the older snapshot.
C14_BlankDeltaIsNoOp ==
    [][ (ProcessStep /\ call'.text # call'.read /\ IsBlank(call'.diff))
            => /\ out' = << >>
               /\ UNCHANGED progVars
               /\ get_latest_text' = get_latest_text ]_vars

\* a snapshot that only gained whitespace arrived after the pause threshold,
\* with a phrase in progress, and the store still holds the older snapshot
C14_Witness ==
    /\ Processed
    /\ call.text # call.read
    /\ StartsWith(call.text, call.read)
    /\ IsBlank(call.diff)
    /\ call.phrase_before # Empty
    /\ call.time - call.last_time >= PauseThreshold
    /\ out = << >>
    /\ current_phrase = call.phrase_before
    /\ last_update_time = call.last_time
    /\ get_latest_text = { call.read }

\* C15: an effective update (snapshot changed, delta not blank) arriving 2.0s
\* or more after last_update_time, the tie included, takes the boundary
\* branch: the accumulator becomes exactly the suppressed delta of the call,
\* a phrase-started event carries it, and no Phrase is appended when the
\* accumulator was empty before the call.
C15_BoundaryResetsToDelta ==
    [][ (/\ ProcessStep
         /\ call'.text # call'.read
         /\ ~IsBlank(call'.diff)
         /\ call'.time - last_update_time >= PauseThreshold)
            => /\ current_phrase' = call'.diff
               /\ out'[Len(out')] = PhraseStarted(call'.diff)
               /\ current_phrase = Empty => PhraseLog' = PhraseLog ]_vars

\* an update exactly 2s after the previous one reset a phrase in progress to
\* a delta that is neither the snapshot nor the old accumulator extended
C15_Witness ==
    /\ Processed
    /\ call.text # call.read
    /\ ~IsBlank(call.diff)
    /\ call.time - call.last_time = PauseThreshold
    /\ call.phrase_before # Empty
    /\ current_phrase = call.diff
    /\ current_phrase # call.text
    /\ current_phrase # call.phrase_before \o call.diff

\* C16: an effective update arriving less than 2.0s after last_update_time
\* appends no Phrase, emits one phrase-updated event with the new accumulator
\* and sets the accumulator to: the old accumulator followed by the delta when
\* the old accumulator is not empty and a substring of current_text;
\* current_text when it is not empty and not a substring of current_text; the
\* delta when it is empty.
C16_ContinuationCases ==
    [][ (/\ ProcessStep
         /\ call'.text # call'.read
         /\ ~IsBlank(call'.diff)
         /\ call'.time - last_update_time < PauseThreshold)
            => /\ PhraseLog' = PhraseLog
               /\ out' = << PhraseUpdated(current_phrase') >>
               /\ (current_phrase # Empty /\ Contains(call'.text, current_phrase))
                      => current_phrase' = current_phrase \o call'.diff
               /\ (current_phrase # Empty /\ ~Contains(call'.text, current_phrase))
                      => current_phrase' = call'.text
               /\ current_phrase = Empty => current_phrase' = call'.diff ]_vars

\* a continuation resynchronized the accumulator with a snapshot that no
\* longer holds it
C16_Witness ==
    /\ Processed
    /\ call.text # call.read
    /\ ~IsBlank(call.diff)
    /\ call.time - call.last_time < PauseThreshold
    /\ call.phrase_before # Empty
    /\ ~Contains(call.text, call.phrase_before)
    /\ current_phrase = call.text
    /\ current_phrase # call.phrase_before \o call.diff
    /\ current_phrase # call.diff

\* C17 as claimed: after every process_subtitle call that takes the
\* continuation or the boundary branch, the store's last snapshot is the
\* current_text of that call and last_update_time is the time of that call.
C17_WriteBackIsLastSnapshot ==
    [][ (ProcessStep /\ call'.branch \in {"continuation", "boundary"})
            => /\ get_latest_text' = { call'.text }
               /\ last_update_time' = call'.time ]_vars

\* C18 as claimed: when the write-back of a call raised and the same snapshot
\* is then processed again without a failure, the accumulator and the phrase
\* history are those of a run in which the write never failed, where the
\* repeated snapshot changes nothing: no delta is appended or finalized twice.
C18_RetryAfterFailedWriteBack ==
    [][ (/\ call.op = "save_to_db_raised"
         /\ ProcessStep
         /\ call'.text = call.text)
            => /\ current_phrase' = current_phrase
               /\ PhraseLog' = PhraseLog ]_vars

\* C19: in every reachable state the accumulator is empty or holds a
\* character that is not whitespace, and no step makes a non-empty
\* accumulator empty again.
C19_AccumulatorNeverBlankNorCleared ==
    /\ [](current_phrase = Empty \/ ~IsBlank(current_phrase))
    /\ [][ current_phrase # Empty => current_phrase' # Empty ]_vars

\* a boundary replaced a phrase in progress by a delta that holds a space
C19_Witness ==
    /\ Processed
    /\ call.branch = "boundary"
    /\ call.phrase_before # Empty
    /\ current_phrase # Empty
    /\ current_phrase # call.phrase_before
    /\ Contains(current_phrase, << SP >>)
    /\ ~IsBlank(current_phrase)

RECURSIVE IsSubsequence(_, _)
\* s can be obtained from t by deleting elements
IsSubsequence(s, t) ==
    IF s = << >> THEN TRUE
    ELSE IF t = << >> THEN FALSE
    ELSE IF Head(s) = Head(t) THEN IsSubsequence(Tail(s), Tail(t))
    ELSE IsSubsequence(s, Tail(t))

\* C20: for a text of more than three tokens the tokens of
\* clean_duplicates(text) are a subsequence of the tokens of text that ends
\* with its last three tokens; the result for a text that has a token is
\* never blank.
C20_TailIsKept ==
    fn_done =>
        LET words == Split(fn_in[Len(fn_in)])
            kept == Split(fn_out)
        IN /\ Len(words) > WindowSize
                => /\ IsSubsequence(kept, words)
                   /\ Len(kept) >= WindowSize
                   /\ SubSeq(kept, Len(kept) - WindowSize + 1, Len(kept))
                        = SubSeq(words, Len(words) - WindowSize + 1, Len(words))
           /\ Len(words) >= 1 => ~IsBlank(fn_out)

\* every window in front of the last three tokens was dropped
C20_Witness ==
    /\ fn_done
    /\ Len(fn_in) = 1
    /\ Len(Split(fn_in[1])) > 2 * WindowSize
    /\ "b" \in { fn_in[1][k] : k \in 1..Len(fn_in[1]) }
    /\ Split(fn_out) = SubSeq(Split(fn_in[1]), Len(Split(fn_in[1])) - WindowSize + 1,
                              Len(Split(fn_in[1])))

=============================================================================
